---------------------------- MODULE Spec2Model ----------------------------
(***************************************************************************)
(* The video playback pipeline of src/unnamed/part_002 (videostate.cpp):   *)
(* PacketQueue, the picture ring buffer, the parse thread, the video       *)
(* decode thread, the audio consumer and the driver calls of VideoState.   *)
(*                                                                         *)
(* Times that the code keeps as double seconds (pts, clocks, seek times)   *)
(* are kept here as integer microseconds; stream timestamps are integers   *)
(* in the stream's time base, as in the code.                              *)
(***************************************************************************)
EXTENDS Integers, Sequences, FiniteSets, TLC

VARIABLES
    cfg,              \* the container handed to init: which streams it has, audio factory
    av_sync_default,  \* the value of AV_SYNC_DEFAULT (set in a header outside the sources)
    now,              \* av_gettime(): wall clock, microseconds
    flush_pkt,        \* the process-wide static FlushPacket
    videoq, audioq,   \* PacketQueue objects
    av_sync_type, audio_st, video_st,
    mQuit, mSeekRequested, mSeekPos, mVideoEnded, mPaused,
    pictq, pictq_size, pictq_rindex, pictq_windex,
    frame_last_pts, video_clock,
    mExternalClock,
    rd,               \* read position of format_ctx in the container
    ppc, seek_target, \* ParseThread: position, local seek_target
    vpc, vpkt, vpts,  \* VideoThread: position, local packet, pts handed to queue_picture
    apc, apkt, audio_clock, \* audio consumer: position, local packet, its clock
    dpc,              \* driver thread: session life cycle / position in deinit
    displayed,        \* history: pts of the pictures handed to video_display since the last seekTo
    seekArg,          \* history: argument of the last seekTo call
    seeks_left,       \* the number of seekTo calls the driver still makes
    fed_flush,        \* history: a packet dequeued from a sentinel node reached avcodec_send_packet
    qp_blocked,       \* history: queue_picture found the ring buffer full for the current frame
    vq_put,           \* history: the nodes put in videoq since its last clear, in order
    vq_got,           \* history: the nodes get returned from videoq since its last clear
    vq_cleared,       \* history: the nodes dropped by the clear of videoq in progress
    aq_put,           \* history: the nodes put in audioq since its last clear, in order
    ended,            \* history: update() has returned false since the last seekTo
    applied,          \* history: the target of the seek the parse thread applied since the
                      \* last seekTo, -1 if none
    reopens_left,     \* the number of init calls the driver still makes on the closed session
    res               \* what the session owns: parse_thread, video_thread, format_ctx
                      \* (non-null or not), and history: the joins and the frees so far

vars == <<cfg, av_sync_default, now, flush_pkt, videoq, audioq, av_sync_type,
          audio_st, video_st, mQuit, mSeekRequested, mSeekPos, mVideoEnded,
          mPaused, pictq, pictq_size, pictq_rindex, pictq_windex,
          frame_last_pts, video_clock, mExternalClock, rd, ppc, seek_target,
          vpc, vpkt, vpts, apc, apkt, audio_clock, dpc, displayed,
          seekArg, seeks_left, fed_flush, qp_blocked, vq_put, vq_got,
          vq_cleared, aq_put, ended, applied, reopens_left, res>>

----------------------------------------------------------------------------
(* Bounds of the model *)

\* number of init calls on the session after it was closed
MaxReopens == 1

\* number of video frames in the container
NFrames == 3
\* number of seekTo calls the driver makes
MaxSeeks == 2
\* number of wall-clock ticks
MaxTicks == 2
\* capacity of the picture ring buffer (VIDEO_PICTURE_QUEUE_SIZE, set in a
\* header outside the sources; the model checks small capacities)
VIDEO_PICTURE_QUEUE_SIZE == 2

----------------------------------------------------------------------------
(* Program constants *)

AV_TIME_BASE == 1000000
MAX_AUDIOQ_SIZE == 5 * 16 * 1024
MAX_VIDEOQ_SIZE == 5 * 256 * 1024
\* const float threshold = 0.03f, in microseconds
threshold == 30000
\* INT64_MIN in the code; here a negative number no timestamp of the model equals
AV_NOPTS_VALUE == 0 - 1000000000
\* pictq.size(): the slot array holds one slot more than the queue's capacity
PICTQ_LEN == VIDEO_PICTURE_QUEUE_SIZE + 1

AV_SYNC_AUDIO_MASTER == "AV_SYNC_AUDIO_MASTER"
AV_SYNC_VIDEO_MASTER == "AV_SYNC_VIDEO_MASTER"
AV_SYNC_EXTERNAL_MASTER == "AV_SYNC_EXTERNAL_MASTER"
SyncTypes == {AV_SYNC_AUDIO_MASTER, AV_SYNC_VIDEO_MASTER, AV_SYNC_EXTERNAL_MASTER}

----------------------------------------------------------------------------
(* The container: input data *)

\* stream time bases of the container
VideoTimeBase == [num |-> 1, den |-> 10]
AudioTimeBase == [num |-> 1, den |-> 20]
\* byte sizes of the packets of the container
VideoPktSize == 700000
AudioPktSize == 50000
\* every KeyInt-th video frame is a key frame
KeyInt == 2

Max(a, b) == IF a < b THEN b ELSE a
Min(a, b) == IF b < a THEN b ELSE a

\* av_q2d(tb) * ts, in microseconds
TsToTime(ts, tb) ==
    IF ts = AV_NOPTS_VALUE THEN AV_NOPTS_VALUE
    ELSE (ts * tb.num * AV_TIME_BASE) \div tb.den

\* av_rescale_q(a, 1/AV_TIME_BASE, tb): a * tb.den / (AV_TIME_BASE * tb.num),
\* rounded to nearest (a >= 0)
av_rescale_q(a, tb) ==
    (2 * a * tb.den + AV_TIME_BASE * tb.num) \div (2 * AV_TIME_BASE * tb.num)

FrameDur == TsToTime(1, VideoTimeBase)
\* format_ctx->duration, in AV_TIME_BASE units
Duration == NFrames * FrameDur

VideoPkt(k) == [data |-> "DATA", size |-> VideoPktSize, pts |-> k, stream |-> "video"]
AudioPkt(k) == [data |-> "DATA", size |-> AudioPktSize,
                pts |-> k * (AudioTimeBase.den \div VideoTimeBase.den), stream |-> "audio"]

RECURSIVE Interleave(_, _)
Interleave(c, k) ==
    IF k >= NFrames THEN <<>>
    ELSE (IF c.video THEN <<VideoPkt(k)>> ELSE <<>>)
         \o (IF c.audio THEN <<AudioPkt(k)>> ELSE <<>>)
         \o Interleave(c, k + 1)

\* the packets av_read_frame returns, in file order
Container(c) == Interleave(c, 0)

\* containers and environments a session is opened on
VideoOnly == [video |-> TRUE, audio |-> FALSE, factory |-> FALSE]
Configs == { VideoOnly,
             [video |-> TRUE,  audio |-> TRUE,  factory |-> TRUE],
             [video |-> FALSE, audio |-> TRUE,  factory |-> TRUE],
             [video |-> FALSE, audio |-> FALSE, factory |-> FALSE] }

----------------------------------------------------------------------------
(* AVPacket and the flush sentinel *)

\* AVPacket(): a value-initialised packet
BlankPkt == [data |-> "NULL", size |-> 0, pts |-> 0, stream |-> "none"]
\* FlushPacket(): AVPacket() with data = flushString
FlushPacketInit == [BlankPkt EXCEPT !.data = "FLUSH"]
\* the state av_packet_move_ref and av_packet_unref leave the source packet in
PacketDefaults == [data |-> "NULL", size |-> 0, pts |-> AV_NOPTS_VALUE, stream |-> "none"]

\* a PacketList node: its pkt pointer is &flush_pkt or a packet of its own
FlushNode == [ref |-> "flush_pkt", pkt |-> BlankPkt]
OwnNode(p) == [ref |-> "own", pkt |-> p]
\* *node->pkt
NodePkt(n) == IF n.ref = "flush_pkt" THEN flush_pkt ELSE n.pkt

----------------------------------------------------------------------------
(* PacketQueue *)

PacketQueueInit == [pkts |-> <<>>, nb_packets |-> 0, size |-> 0, flushing |-> FALSE]

\* a put that links the node at the head of the list
PQ_put_atHead(q, n) ==
    [q EXCEPT !.pkts = <<n>> \o @,
              !.nb_packets = @ + 1,
              !.size = @ + NodePkt(n).size]

\* a put that takes the flushing mark off the queue
PQ_put_unflush(q, n) ==
    [q EXCEPT !.pkts = Append(@, n),
              !.nb_packets = @ + 1,
              !.size = @ + NodePkt(n).size,
              !.flushing = FALSE]

\* PacketQueue::put, the part under the mutex
PQ_put(q, n) ==
    [q EXCEPT !.pkts = Append(@, n),
              !.nb_packets = @ + 1,
              !.size = @ + NodePkt(n).size]

\* a removal that leaves the byte total as it was
PQ_pop_keepSize(q) ==
    [q EXCEPT !.pkts = Tail(@),
              !.nb_packets = @ - 1]

\* PacketQueue::get, the removal of the head node
PQ_pop(q) ==
    [q EXCEPT !.pkts = Tail(@),
              !.nb_packets = @ - 1,
              !.size = @ - NodePkt(Head(q.pkts)).size]

\* a clear that leaves the byte total as it was
PQ_clear_keepSize(q) ==
    [q EXCEPT !.pkts = <<>>, !.nb_packets = 0]

\* a clear that leaves the list as it is
PQ_clear_nothing(q) == q

\* PacketQueue::clear
PQ_clear(q) ==
    [q EXCEPT !.pkts = <<>>, !.nb_packets = 0, !.size = 0]

\* a flush that also drops what is queued
PQ_flush_dropAll(q) == [q EXCEPT !.flushing = TRUE, !.pkts = <<>>, !.nb_packets = 0, !.size = 0]

\* PacketQueue::flush
PQ_flush(q) == [q EXCEPT !.flushing = TRUE]

\* a get that hands out a queued packet before it looks at the stop flag
PQ_getOutcome_pktFirst(q) ==
    IF q.pkts # <<>> THEN "packet"
    ELSE IF mQuit THEN "quit"
    ELSE IF q.flushing THEN "flushed"
    ELSE "wait"

\* what one pass of the loop of PacketQueue::get does
PQ_getOutcome(q) ==
    IF mQuit THEN "quit"
    ELSE IF q.pkts # <<>> THEN "packet"
    ELSE IF q.flushing THEN "flushed"
    ELSE "wait"

\* the queue's mutex is held by a consumer between its check and its wait
VideoqLocked == vpc = "get_block"
AudioqLocked == apc = "get_block"

\* a picture queue mutex that stays locked through the wait for a free slot
PictqLocked_duringWait == vpc \in {"qp_wait", "qp_locked"}

\* pictq_mutex is held by the video thread, in the write section of
\* queue_picture; the other holders lock, assign and unlock in one step
PictqLocked == vpc = "qp_locked"


----------------------------------------------------------------------------
(* ExternalClock *)

\* a set that records the time but keeps the old time base
ExternalClock_set_keepBase(c, time) == [c EXCEPT !.mPausedAt = time]

\* ExternalClock::set
ExternalClock_set(c, time) == [c EXCEPT !.mTimeBase = now - time, !.mPausedAt = time]

\* a setPaused that resumes on the old time base
ExternalClock_setPaused_keepBase(c, paused) ==
    IF c.mPaused = paused THEN c
    ELSE IF paused THEN [c EXCEPT !.mPausedAt = now - c.mTimeBase, !.mPaused = paused]
    ELSE [c EXCEPT !.mPaused = paused]

\* ExternalClock::setPaused
ExternalClock_setPaused(c, paused) ==
    IF c.mPaused = paused THEN c
    ELSE IF paused THEN [c EXCEPT !.mPausedAt = now - c.mTimeBase, !.mPaused = paused]
    ELSE [c EXCEPT !.mTimeBase = now - c.mPausedAt, !.mPaused = paused]

\* ExternalClock::get
ExternalClock_get(c) == IF c.mPaused THEN c.mPausedAt ELSE now - c.mTimeBase

\* VideoState::get_external_clock (seconds in the code, microseconds here)
get_external_clock == ExternalClock_get(mExternalClock)

\* VideoState::get_video_clock
get_video_clock == frame_last_pts

\* VideoState::get_audio_clock: 0.0 without an audio decoder
get_audio_clock == IF apc \in {"idle", "done"} THEN 0 ELSE audio_clock

\* VideoState::get_master_clock
get_master_clock ==
    IF av_sync_type = AV_SYNC_VIDEO_MASTER THEN get_video_clock
    ELSE IF av_sync_type = AV_SYNC_AUDIO_MASTER THEN get_audio_clock
    ELSE get_external_clock

----------------------------------------------------------------------------
(* Construction *)

\* VideoState::VideoState, PacketQueue(), ExternalClock(), the static flush_pkt
InitSession(configs, syncs, seeks, reopens) ==
    /\ cfg \in configs
    /\ av_sync_default \in syncs
    /\ seeks_left = seeks
    /\ now = 0
    /\ flush_pkt = FlushPacketInit
    /\ videoq = PacketQueueInit
    /\ audioq = PacketQueueInit
    /\ av_sync_type = av_sync_default
    /\ audio_st = FALSE
    /\ video_st = FALSE
    /\ mQuit = FALSE
    /\ mSeekRequested = FALSE
    /\ mSeekPos = 0
    /\ mVideoEnded = FALSE
    /\ mPaused = FALSE
    /\ pictq = [i \in 0 .. PICTQ_LEN - 1 |-> 0]
    /\ pictq_size = 0
    /\ pictq_rindex = 0
    /\ pictq_windex = 0
    /\ frame_last_pts = 0
    /\ video_clock = 0
    /\ mExternalClock = [mTimeBase |-> now, mPausedAt |-> 0, mPaused |-> FALSE]
    /\ rd = 0
    /\ ppc = "idle"
    /\ seek_target = 0
    /\ vpc = "idle"
    /\ vpkt = [pkt |-> BlankPkt, ref |-> "own"]
    /\ vpts = 0
    /\ apc = "idle"
    /\ apkt = BlankPkt
    /\ audio_clock = 0
    /\ dpc = "new"
    /\ displayed = <<>>
    /\ seekArg = 0
    /\ fed_flush = FALSE
    /\ qp_blocked = FALSE
    /\ vq_put = <<>>
    /\ vq_got = <<>>
    /\ vq_cleared = <<>>
    /\ aq_put = <<>>
    /\ ended = FALSE
    /\ applied = -1
    /\ reopens_left = reopens
    /\ res = [parse_thread |-> FALSE, video_thread |-> FALSE, format_ctx |-> FALSE,
              joined |-> 0, freed |-> 0]

\* a session that is opened once
InitWith(configs, syncs, seeks) == InitSession(configs, syncs, seeks, 0)

----------------------------------------------------------------------------
(* Variable groups *)

gCfg == <<cfg, av_sync_default, reopens_left, res>>
gPict == <<pictq, pictq_size, pictq_rindex, pictq_windex>>
gFlags == <<mSeekRequested, mSeekPos, mVideoEnded, mPaused>>
gStreams == <<av_sync_type, audio_st, video_st>>
gParse == <<rd, ppc, seek_target>>
gVideo == <<vpc, vpkt, vpts>>
gAudio == <<apc, apkt, audio_clock>>
gHist == <<displayed, seekArg, seeks_left, fed_flush, qp_blocked>>
gQHist == <<vq_put, vq_got, vq_cleared>>
gHist2 == <<aq_put, ended, applied>>

\* cond.notify_one(): a consumer asleep in cond.wait is made runnable
Notified(pc) == IF pc = "get_waiting" THEN "get" ELSE pc

----------------------------------------------------------------------------
(* VideoState::init and VideoState::stream_open *)

\* an audio stream that is kept whether or not a decoder can be made for it
AudioOpens_anyway(c) == c.audio

\* stream_open(audio_index): the audio stream is kept only with a factory
AudioOpens(c) == c.audio /\ c.factory
\* stream_open(video_index)
VideoOpens(c) == c.video

\* a sync type chosen from the streams that opened
InitSyncType_byStreams ==
    IF VideoOpens(cfg) /\ ~AudioOpens(cfg) THEN AV_SYNC_VIDEO_MASTER
    ELSE IF AudioOpens(cfg) THEN AV_SYNC_AUDIO_MASTER
    ELSE AV_SYNC_EXTERNAL_MASTER

\* av_sync_type as init leaves it
InitSyncType == av_sync_default

\* VideoState::init. The input stream and the container either open, or
\* init throws before it has opened a stream or started a thread.
init_call ==
    /\ av_sync_type' = InitSyncType
    /\ mQuit' = FALSE
    /\ \E opened \in BOOLEAN :
         IF opened
         THEN /\ mExternalClock' = ExternalClock_set(mExternalClock, 0)
              /\ audio_st' = AudioOpens(cfg)
              /\ apc' = IF AudioOpens(cfg) THEN "get" ELSE apc
              /\ video_st' = VideoOpens(cfg)
              /\ vpc' = IF VideoOpens(cfg) THEN "get" ELSE vpc
              /\ vpkt' = IF VideoOpens(cfg) THEN [pkt |-> BlankPkt, ref |-> "own"] ELSE vpkt
              /\ rd' = 0
              /\ ppc' = "start"
              /\ res' = [res EXCEPT !.format_ctx = TRUE,
                                    !.video_thread = VideoOpens(cfg),
                                    !.parse_thread = TRUE]
              /\ dpc' = "open"
         ELSE /\ dpc' = "failed"
              /\ UNCHANGED <<mExternalClock, audio_st, apc, video_st, vpc, vpkt, rd, ppc, res>>
    /\ UNCHANGED <<cfg, av_sync_default, gHist2, gQHist, now, flush_pkt, videoq, audioq,
                   gFlags, gPict, frame_last_pts, video_clock, seek_target, vpts,
                   apkt, audio_clock, gHist>>

\* VideoState::init on the session as constructed
init ==
    /\ dpc = "new"
    /\ init_call
    /\ UNCHANGED reopens_left

\* VideoState::init on the session that deinit has closed
reinit ==
    /\ dpc = "closed"
    /\ reopens_left > 0
    /\ reopens_left' = reopens_left - 1
    /\ init_call

----------------------------------------------------------------------------
(* ParseThread::run *)

IsKey(p) == p.stream = "audio" \/ p.pts % KeyInt = 0

SetMax(S) == CHOOSE x \in S : \A y \in S : y <= x

\* av_seek_frame(format_ctx, streamIndex, timestamp, AVSEEK_FLAG_BACKWARD): the
\* read position of the last key frame of the stream at or before timestamp
SeekLanding(c, stream, timestamp) ==
    LET C == Container(c)
        K == {i \in 1 .. Len(C) : C[i].stream = stream /\ IsKey(C[i])
                                  /\ C[i].pts <= timestamp}
    IN  SetMax(K) - 1

\* the throw of "No streams to decode", else the entry of the main loop
P_Start ==
    /\ ppc = "start"
    /\ ppc' = IF ~video_st /\ ~audio_st THEN "exit" ELSE "loop"
    /\ UNCHANGED <<gCfg, gHist2, gQHist, now, flush_pkt, videoq, audioq, gStreams, mQuit, gFlags,
                   gPict, frame_last_pts, video_clock, mExternalClock, rd,
                   seek_target, gVideo, gAudio, dpc, gHist>>

\* while(!self->mQuit) fails
P_LoopQuit ==
    /\ ppc = "loop"
    /\ mQuit
    /\ ppc' = "exit"
    /\ UNCHANGED <<gCfg, gHist2, gQHist, now, flush_pkt, videoq, audioq, gStreams, mQuit, gFlags,
                   gPict, frame_last_pts, video_clock, mExternalClock, rd,
                   seek_target, gVideo, gAudio, dpc, gHist>>

\* a seek test placed after the back-pressure test of the loop
P_SeekBegin_afterCeiling ==
    /\ ppc = "loop"
    /\ ~mQuit
    /\ mSeekRequested
    /\ ~(audio_st /\ audioq.size > MAX_AUDIOQ_SIZE)
    /\ ~(video_st /\ videoq.size > MAX_VIDEOQ_SIZE)
    /\ seek_target' = mSeekPos
    /\ ppc' = "seek"
    /\ UNCHANGED <<gCfg, gHist2, gQHist, now, flush_pkt, videoq, audioq, gStreams, mQuit, gFlags,
                   gPict, frame_last_pts, video_clock, mExternalClock, rd,
                   gVideo, gAudio, dpc, gHist>>

\* if(self->mSeekRequested): seek_target = self->mSeekPos
P_SeekBegin ==
    /\ ppc = "loop"
    /\ ~mQuit
    /\ mSeekRequested
    /\ seek_target' = mSeekPos
    /\ ppc' = "seek"
    /\ UNCHANGED <<gCfg, gHist2, gQHist, now, flush_pkt, videoq, audioq, gStreams, mQuit, gFlags,
                   gPict, frame_last_pts, video_clock, mExternalClock, rd,
                   gVideo, gAudio, dpc, gHist>>

\* seek handling that passes over the video queue
AfterAudioPart_skipVideo == "s_pictq"

\* the pc after a successful av_seek_frame, and after each queue's part
AfterSeek == IF audio_st THEN "s_aclear" ELSE IF video_st THEN "s_vclear" ELSE "s_pictq"
AfterAudioPart == IF video_st THEN "s_vclear" ELSE "s_pictq"

\* a failed seek that ends the parse thread
AfterSeekFail_exit == "exit"

\* the pc after a failed av_seek_frame: the error is logged, the else branch
\* is skipped
AfterSeekFail == "s_done"

\* av_seek_frame: it fails (logged) or moves the read position
P_Seek ==
    /\ ppc = "seek"
    /\ \E ok \in BOOLEAN :
         IF ok
         THEN LET stream == IF video_st THEN "video" ELSE "audio"
                  tb == IF video_st THEN VideoTimeBase ELSE AudioTimeBase
              IN  /\ rd' = SeekLanding(cfg, stream, av_rescale_q(seek_target, tb))
                  /\ ppc' = AfterSeek
         ELSE /\ rd' = rd
              /\ ppc' = AfterSeekFail
    /\ UNCHANGED <<gCfg, gHist2, gQHist, now, flush_pkt, videoq, audioq, gStreams, mQuit, gFlags,
                   gPict, frame_last_pts, video_clock, mExternalClock,
                   seek_target, gVideo, gAudio, dpc, gHist>>

\* self->audioq.clear()
P_SeekAudioClear ==
    /\ ppc = "s_aclear"
    /\ ~AudioqLocked
    /\ audioq' = PQ_clear(audioq)
    /\ aq_put' = <<>>
    /\ ppc' = "s_apts"
    /\ UNCHANGED <<gCfg, ended, applied, gQHist, now, flush_pkt, videoq, gStreams, mQuit, gFlags,
                   gPict, frame_last_pts, video_clock, mExternalClock, rd,
                   seek_target, gVideo, gAudio, dpc, gHist>>

\* flush_pkt.pts = av_rescale_q(seek_target, avTimeBaseQ, audio time_base)
P_SeekAudioPts ==
    /\ ppc = "s_apts"
    /\ flush_pkt' = [flush_pkt EXCEPT !.pts = av_rescale_q(seek_target, AudioTimeBase)]
    /\ ppc' = "s_aput"
    /\ UNCHANGED <<gCfg, gHist2, gQHist, now, videoq, audioq, gStreams, mQuit, gFlags,
                   gPict, frame_last_pts, video_clock, mExternalClock, rd,
                   seek_target, gVideo, gAudio, dpc, gHist>>

\* self->audioq.put(&flush_pkt)
P_SeekAudioPut ==
    /\ ppc = "s_aput"
    /\ ~AudioqLocked
    /\ audioq' = PQ_put(audioq, FlushNode)
    /\ aq_put' = Append(aq_put, FlushNode)
    /\ apc' = Notified(apc)
    /\ ppc' = AfterAudioPart
    /\ UNCHANGED <<gCfg, ended, applied, gQHist, now, flush_pkt, videoq, gStreams, mQuit, gFlags,
                   gPict, frame_last_pts, video_clock, mExternalClock, rd,
                   seek_target, gVideo, apkt, audio_clock, dpc, gHist>>

\* self->videoq.clear()
P_SeekVideoClear ==
    /\ ppc = "s_vclear"
    /\ ~VideoqLocked
    /\ videoq' = PQ_clear(videoq)
    /\ vq_cleared' = videoq.pkts
    /\ vq_put' = <<>>
    /\ vq_got' = <<>>
    /\ ppc' = "s_vpts"
    /\ UNCHANGED <<gCfg, gHist2, now, flush_pkt, audioq, gStreams, mQuit, gFlags,
                   gPict, frame_last_pts, video_clock, mExternalClock, rd,
                   seek_target, gVideo, gAudio, dpc, gHist>>

\* flush_pkt.pts = av_rescale_q(seek_target, avTimeBaseQ, video time_base)
P_SeekVideoPts ==
    /\ ppc = "s_vpts"
    /\ flush_pkt' = [flush_pkt EXCEPT !.pts = av_rescale_q(seek_target, VideoTimeBase)]
    /\ ppc' = "s_vput"
    /\ UNCHANGED <<gCfg, gHist2, gQHist, now, videoq, audioq, gStreams, mQuit, gFlags,
                   gPict, frame_last_pts, video_clock, mExternalClock, rd,
                   seek_target, gVideo, gAudio, dpc, gHist>>

\* self->videoq.put(&flush_pkt)
P_SeekVideoPut ==
    /\ ppc = "s_vput"
    /\ ~VideoqLocked
    /\ videoq' = PQ_put(videoq, FlushNode)
    /\ vq_put' = Append(vq_put, FlushNode)
    /\ vq_cleared' = <<>>
    /\ vq_got' = vq_got
    /\ vpc' = Notified(vpc)
    /\ ppc' = "s_pictq"
    /\ UNCHANGED <<gCfg, gHist2, now, flush_pkt, audioq, gStreams, mQuit, gFlags,
                   gPict, frame_last_pts, video_clock, mExternalClock, rd,
                   seek_target, vpkt, vpts, gAudio, dpc, gHist>>

\* a reset that leaves the write index where it was
PictqReset_keepWindex ==
    /\ pictq_size' = 0
    /\ pictq_rindex' = 0
    /\ pictq_windex' = pictq_windex
    /\ pictq' = pictq

\* the reset of the picture queue under pictq_mutex
PictqReset ==
    /\ pictq_size' = 0
    /\ pictq_rindex' = 0
    /\ pictq_windex' = 0
    /\ pictq' = pictq

P_SeekPictq ==
    /\ ppc = "s_pictq"
    /\ ~PictqLocked
    /\ PictqReset
    /\ displayed' = <<>>
    /\ applied' = seek_target
    /\ ppc' = "s_clock"
    /\ UNCHANGED <<gCfg, aq_put, ended, gQHist, now, flush_pkt, videoq, audioq, gStreams, mQuit, gFlags,
                   frame_last_pts, video_clock, mExternalClock, rd,
                   seek_target, gVideo, gAudio, dpc, seekArg, seeks_left, fed_flush,
                   qp_blocked>>

\* self->mExternalClock.set(seek_target)
P_SeekClock ==
    /\ ppc = "s_clock"
    /\ mExternalClock' = ExternalClock_set(mExternalClock, seek_target)
    /\ ppc' = "s_done"
    /\ UNCHANGED <<gCfg, gHist2, gQHist, now, flush_pkt, videoq, audioq, gStreams, mQuit, gFlags,
                   gPict, frame_last_pts, video_clock, rd,
                   seek_target, gVideo, gAudio, dpc, gHist>>

\* self->mSeekRequested = false
P_SeekDone ==
    /\ ppc = "s_done"
    /\ mSeekRequested' = FALSE
    /\ ppc' = "io"
    /\ UNCHANGED <<gCfg, gHist2, gQHist, now, flush_pkt, videoq, audioq, gStreams, mQuit,
                   mSeekPos, mVideoEnded, mPaused,
                   gPict, frame_last_pts, video_clock, mExternalClock, rd,
                   seek_target, gVideo, gAudio, dpc, gHist>>

\* a parse loop that never holds back
OverCeiling_never == FALSE

\* the back-pressure test of the parse loop
OverCeiling ==
    \/ audio_st /\ audioq.size > MAX_AUDIOQ_SIZE
    \/ video_st /\ videoq.size > MAX_VIDEOQ_SIZE

\* a failed read that never marks the video as ended
AllDrained_never == FALSE

\* the test under which a failed read marks the video as ended
AllDrained == audioq.nb_packets = 0 /\ videoq.nb_packets = 0 /\ pictq_size = 0

\* a successful read that leaves the ended mark as it is
AfterRead_sticky == mVideoEnded

\* self->mVideoEnded = false, after av_read_frame returned a packet
AfterRead == FALSE

\* the rest of a loop pass: back-pressure, av_read_frame, routing of the packet
ParseIO ==
    /\ ppc' = "loop"
    /\ IF OverCeiling
       THEN UNCHANGED <<rd, mVideoEnded, videoq, audioq, vpc, apc, vq_put, aq_put>>
       ELSE IF rd >= Len(Container(cfg))
       THEN /\ mVideoEnded' = (IF AllDrained THEN TRUE ELSE mVideoEnded)
            /\ UNCHANGED <<rd, videoq, audioq, vpc, apc, vq_put, aq_put>>
       ELSE LET packet == Container(cfg)[rd + 1] IN
            /\ rd' = rd + 1
            /\ mVideoEnded' = AfterRead
            /\ IF video_st /\ packet.stream = "video"
               THEN /\ ~VideoqLocked
                    /\ videoq' = PQ_put(videoq, OwnNode(packet))
                    /\ vq_put' = Append(vq_put, OwnNode(packet))
                    /\ vpc' = Notified(vpc)
                    /\ UNCHANGED <<audioq, apc, aq_put>>
               ELSE IF audio_st /\ packet.stream = "audio"
               THEN /\ ~AudioqLocked
                    /\ audioq' = PQ_put(audioq, OwnNode(packet))
                    /\ aq_put' = Append(aq_put, OwnNode(packet))
                    /\ apc' = Notified(apc)
                    /\ UNCHANGED <<videoq, vpc, vq_put>>
               ELSE UNCHANGED <<videoq, audioq, vpc, apc, vq_put, aq_put>>
    /\ UNCHANGED <<gCfg, ended, applied, vq_got, vq_cleared, now, flush_pkt, gStreams, mQuit, mSeekRequested, mSeekPos,
                   mPaused, gPict, frame_last_pts, video_clock, mExternalClock,
                   seek_target, vpkt, vpts, apkt, audio_clock, dpc, gHist>>

\* a loop pass with no seek requested
P_Iter ==
    /\ ppc = "loop"
    /\ ~mQuit
    /\ ~mSeekRequested
    /\ ParseIO

\* the rest of the loop pass that handled a seek request
P_IterAfterSeek ==
    /\ ppc = "io"
    /\ ParseIO

\* an end of run() that leaves the stop flag alone
P_Exit_keepQuit ==
    /\ ppc = "exit"
    /\ ppc' = "done"
    /\ UNCHANGED <<gCfg, gHist2, gQHist, now, flush_pkt, videoq, audioq, gStreams, mQuit, gFlags,
                   gPict, frame_last_pts, video_clock, mExternalClock, rd,
                   seek_target, gVideo, gAudio, dpc, gHist>>

\* self->mQuit = true at the end of run()
P_Exit ==
    /\ ppc = "exit"
    /\ mQuit' = TRUE
    /\ ppc' = "done"
    /\ UNCHANGED <<gCfg, gHist2, gQHist, now, flush_pkt, videoq, audioq, gStreams, gFlags,
                   gPict, frame_last_pts, video_clock, mExternalClock, rd,
                   seek_target, gVideo, gAudio, dpc, gHist>>

----------------------------------------------------------------------------
(* VideoThread::run, VideoState::synchronize_video, VideoState::queue_picture *)

\* self->videoq.get(packet.get(), self): one pass of the loop of get, to the
\* return of a packet, the return of -1, or the decision to wait
V_Get ==
    /\ vpc = "get"
    /\ LET o == PQ_getOutcome(videoq) IN
         IF o = "packet"
         THEN LET n == Head(videoq.pkts) IN
              /\ videoq' = PQ_pop(videoq)
              /\ vpkt' = [pkt |-> NodePkt(n), ref |-> n.ref]
              /\ flush_pkt' = IF n.ref = "flush_pkt" THEN PacketDefaults ELSE flush_pkt
              /\ vq_got' = Append(vq_got, n)
              /\ vpc' = "got"
         ELSE /\ vpc' = IF o = "wait" THEN "get_block" ELSE "done"
              /\ UNCHANGED <<videoq, vpkt, flush_pkt, vq_got>>
    /\ UNCHANGED <<gCfg, gHist2, vq_put, vq_cleared, now, audioq, gStreams, mQuit, gFlags, gPict,
                   frame_last_pts, video_clock, mExternalClock, gParse,
                   vpts, gAudio, dpc, gHist>>

\* this->cond.wait(lock): the mutex is released and the thread sleeps
V_Wait ==
    /\ vpc = "get_block"
    /\ vpc' = "get_waiting"
    /\ UNCHANGED <<gCfg, gHist2, gQHist, now, flush_pkt, videoq, audioq, gStreams, mQuit, gFlags,
                   gPict, frame_last_pts, video_clock, mExternalClock, gParse,
                   vpkt, vpts, gAudio, dpc, gHist>>

\* the test of VideoThread::run for the flush sentinel
IsFlushPacket(packet) == packet.data = flush_pkt.data

\* synchronize_video(frame, pts), repeat_pict = 0: <<returned pts, video_clock>>
synchronize_video(pts) ==
    LET p == IF pts # 0 THEN pts ELSE video_clock
        c == IF pts # 0 THEN pts ELSE video_clock
    IN  <<p, c + TsToTime(1, VideoTimeBase)>>

\* the packet is the sentinel: avcodec_flush_buffers
V_GotFlush ==
    /\ vpc = "got"
    /\ IsFlushPacket(vpkt.pkt)
    /\ vpc' = "flush_reset"
    /\ UNCHANGED <<gCfg, gHist2, gQHist, now, flush_pkt, videoq, audioq, gStreams, mQuit, gFlags,
                   gPict, frame_last_pts, video_clock, mExternalClock, gParse,
                   vpkt, vpts, gAudio, dpc, gHist>>

\* the packet is data: avcodec_send_packet, avcodec_receive_frame,
\* synchronize_video. A packet of size 0 yields an error or no frame.
V_GotData ==
    /\ vpc = "got"
    /\ ~IsFlushPacket(vpkt.pkt)
    /\ fed_flush' = (fed_flush \/ vpkt.ref = "flush_pkt")
    /\ IF vpkt.pkt.size = 0
       THEN /\ \E err \in BOOLEAN : vpc' = IF err THEN "done" ELSE "get"
            /\ UNCHANGED <<vpts, video_clock>>
       ELSE LET sv == synchronize_video(TsToTime(vpkt.pkt.pts, VideoTimeBase)) IN
            /\ vpts' = sv[1]
            /\ video_clock' = sv[2]
            /\ vpc' = "qp_wait"
    /\ UNCHANGED <<gCfg, gHist2, gQHist, now, flush_pkt, videoq, audioq, gStreams, mQuit, gFlags,
                   gPict, frame_last_pts, mExternalClock, gParse,
                   vpkt, gAudio, dpc, displayed, seekArg, seeks_left, qp_blocked>>

\* the reset of the picture queue under pictq_mutex
V_FlushReset ==
    /\ vpc = "flush_reset"
    /\ PictqReset
    /\ vpc' = "flush_pts"
    /\ UNCHANGED <<gCfg, gHist2, gQHist, now, flush_pkt, videoq, audioq, gStreams, mQuit, gFlags,
                   frame_last_pts, video_clock, mExternalClock, gParse,
                   vpkt, vpts, gAudio, dpc, gHist>>

\* self->frame_last_pts = packet->pts * av_q2d(time_base); continue
V_FlushPts ==
    /\ vpc = "flush_pts"
    /\ frame_last_pts' = TsToTime(vpkt.pkt.pts, VideoTimeBase)
    /\ vpc' = "get"
    /\ UNCHANGED <<gCfg, gHist2, gQHist, now, flush_pkt, videoq, audioq, gStreams, mQuit, gFlags,
                   gPict, video_clock, mExternalClock, gParse,
                   vpkt, vpts, gAudio, dpc, gHist>>

\* a wait loop that lets the producer through while the buffer is full
PictqFull_offByOne == pictq_size > VIDEO_PICTURE_QUEUE_SIZE /\ ~mQuit

\* a wait loop that holds the producer until the buffer is empty
PictqFull_untilEmpty == pictq_size >= 1 /\ ~mQuit

\* the wait loop of queue_picture continues
PictqFull == pictq_size >= VIDEO_PICTURE_QUEUE_SIZE /\ ~mQuit

\* queue_picture: while(pictq_size >= VIDEO_PICTURE_QUEUE_SIZE && !mQuit)
\*     pictq_cond.wait_for(lock, 1ms)
V_QpWait ==
    /\ vpc = "qp_wait"
    /\ IF PictqFull
       THEN /\ qp_blocked' = TRUE
            /\ vpc' = vpc
       ELSE /\ vpc' = "qp_check"
            /\ qp_blocked' = qp_blocked
    /\ UNCHANGED <<gCfg, gHist2, gQHist, now, flush_pkt, videoq, audioq, gStreams, mQuit, gFlags,
                   gPict, frame_last_pts, video_clock, mExternalClock, gParse,
                   vpkt, vpts, gAudio, dpc, displayed, seekArg, seeks_left,
                   fed_flush>>

\* queue_picture: if(this->mQuit) return -1, which ends the receive loop
V_QpCheck ==
    /\ vpc = "qp_check"
    /\ vpc' = IF mQuit THEN "get" ELSE "qp_write"
    /\ qp_blocked' = (IF mQuit THEN FALSE ELSE qp_blocked)
    /\ UNCHANGED <<gCfg, gHist2, gQHist, now, flush_pkt, videoq, audioq, gStreams, mQuit, gFlags,
                   gPict, frame_last_pts, video_clock, mExternalClock, gParse,
                   vpkt, vpts, gAudio, dpc, displayed, seekArg, seeks_left,
                   fed_flush>>

\* queue_picture: std::lock_guard<std::mutex> lock(this->pictq_mutex)
V_QpLock ==
    /\ vpc = "qp_write"
    /\ vpc' = "qp_locked"
    /\ UNCHANGED <<gCfg, gHist2, gQHist, now, flush_pkt, videoq, audioq, gStreams, mQuit, gFlags,
                   gPict, frame_last_pts, video_clock, mExternalClock, gParse,
                   vpkt, vpts, gAudio, dpc, gHist>>

\* queue_picture, under pictq_mutex: the slot at pictq_windex is written,
\* and the mutex is released on return
V_QpWrite ==
    /\ vpc = "qp_locked"
    /\ pictq' = [pictq EXCEPT ![pictq_windex] = vpts]
    /\ pictq_windex' = (pictq_windex + 1) % PICTQ_LEN
    /\ pictq_size' = pictq_size + 1
    /\ pictq_rindex' = pictq_rindex
    /\ qp_blocked' = FALSE
    /\ vpc' = "get"
    /\ UNCHANGED <<gCfg, gHist2, gQHist, now, flush_pkt, videoq, audioq, gStreams, mQuit, gFlags,
                   frame_last_pts, video_clock, mExternalClock, gParse,
                   vpkt, vpts, gAudio, dpc, displayed, seekArg, seeks_left,
                   fed_flush>>

\* the video thread: its decoding, and its handling of a recognised sentinel
VideoDecode ==
    V_Get \/ V_Wait \/ V_GotData \/ V_QpWait \/ V_QpCheck \/ V_QpLock \/ V_QpWrite
VideoFlush == V_GotFlush \/ V_FlushReset \/ V_FlushPts
VideoThread == VideoDecode \/ VideoFlush

----------------------------------------------------------------------------
(* The audio decoder: the consumer of audioq *)

\* audioq.get(packet, is), and the decoder's clock set from the packet
A_Get ==
    /\ apc = "get"
    /\ LET o == PQ_getOutcome(audioq) IN
         IF o = "packet"
         THEN LET n == Head(audioq.pkts) IN
              /\ audioq' = PQ_pop(audioq)
              /\ apkt' = NodePkt(n)
              /\ audio_clock' = TsToTime(NodePkt(n).pts, AudioTimeBase)
              /\ flush_pkt' = IF n.ref = "flush_pkt" THEN PacketDefaults ELSE flush_pkt
              /\ apc' = apc
         ELSE /\ apc' = IF o = "wait" THEN "get_block" ELSE "done"
              /\ UNCHANGED <<audioq, apkt, audio_clock, flush_pkt>>
    /\ UNCHANGED <<gCfg, gHist2, gQHist, now, videoq, gStreams, mQuit, gFlags, gPict,
                   frame_last_pts, video_clock, mExternalClock, gParse,
                   gVideo, dpc, gHist>>

A_Wait ==
    /\ apc = "get_block"
    /\ apc' = "get_waiting"
    /\ UNCHANGED <<gCfg, gHist2, gQHist, now, flush_pkt, videoq, audioq, gStreams, mQuit, gFlags,
                   gPict, frame_last_pts, video_clock, mExternalClock, gParse,
                   gVideo, apkt, audio_clock, dpc, gHist>>

AudioThread == A_Get \/ A_Wait

\* a condition variable may wake a waiter with no notification
V_SpuriousWakeup ==
    /\ vpc = "get_waiting"
    /\ vpc' = "get"
    /\ UNCHANGED <<gCfg, gHist2, gQHist, now, flush_pkt, videoq, audioq, gStreams, mQuit, gFlags,
                   gPict, frame_last_pts, video_clock, mExternalClock, gParse,
                   vpkt, vpts, gAudio, dpc, gHist>>

A_SpuriousWakeup ==
    /\ apc = "get_waiting"
    /\ apc' = "get"
    /\ UNCHANGED <<gCfg, gHist2, gQHist, now, flush_pkt, videoq, audioq, gStreams, mQuit, gFlags,
                   gPict, frame_last_pts, video_clock, mExternalClock, gParse,
                   gVideo, apkt, audio_clock, dpc, gHist>>

----------------------------------------------------------------------------
(* The driver thread: update, seekTo, setPaused, deinit *)

\* a refresh that never holds a picture back
NotReady_never == FALSE

\* video_refresh: the head picture is ahead of the master clock by more than
\* the threshold, "not ready yet to show this picture"
NotReady == pictq[pictq_rindex] > get_master_clock + threshold

\* a refresh that never skips a picture
SkipLate_none(r, i, master) == <<r, i>>

\* the skip loop of video_refresh: <<read index, i>> when the loop ends
RECURSIVE SkipLate(_, _, _)
SkipLate(r, i, master) ==
    IF i < pictq_size - 1 /\ pictq[r] + threshold <= master
    THEN SkipLate((r + 1) % PICTQ_LEN, i + 1, master)
    ELSE <<r, i>>

\* a refresh that displays the head picture and leaves the read index on it
video_refresh_noAdvance ==
    IF pictq_size = 0
    THEN [show |-> FALSE, vp |-> pictq_rindex, rindex |-> pictq_rindex, size |-> pictq_size]
    ELSE [show |-> TRUE, vp |-> pictq_rindex, rindex |-> pictq_rindex,
          size |-> pictq_size - 1]

\* VideoState::video_refresh: whether a picture is displayed, the slot that is
\* displayed, and the read index and count afterwards
video_refresh ==
    IF pictq_size = 0
    THEN [show |-> FALSE, vp |-> pictq_rindex, rindex |-> pictq_rindex, size |-> pictq_size]
    ELSE IF av_sync_type = AV_SYNC_VIDEO_MASTER
    THEN [show |-> TRUE, vp |-> pictq_rindex,
          rindex |-> (pictq_rindex + 1) % PICTQ_LEN, size |-> pictq_size - 1]
    ELSE IF NotReady
    THEN [show |-> FALSE, vp |-> pictq_rindex, rindex |-> pictq_rindex, size |-> pictq_size]
    ELSE LET s == SkipLate(pictq_rindex, 0, get_master_clock) IN
         [show |-> TRUE, vp |-> s[1],
          rindex |-> (s[1] + 1) % PICTQ_LEN, size |-> pictq_size - s[2] - 1]

\* VideoState::update
update ==
    /\ dpc = "open"
    /\ ~PictqLocked
    /\ LET r == video_refresh IN
         /\ pictq_rindex' = r.rindex
         /\ pictq_size' = r.size
         /\ frame_last_pts' = IF r.show THEN pictq[r.vp] ELSE frame_last_pts
         /\ displayed' = IF r.show THEN Append(displayed, pictq[r.vp]) ELSE displayed
    /\ ended' = (ended \/ mVideoEnded)
    /\ UNCHANGED <<gCfg, aq_put, applied, gQHist, now, flush_pkt, videoq, audioq, gStreams, mQuit, gFlags,
                   pictq, pictq_windex, video_clock, mExternalClock, gParse,
                   gVideo, gAudio, dpc, seekArg, seeks_left, fed_flush,
                   qp_blocked>>

\* the driver's time arguments count quarter microseconds
TimeUnit == 4
\* VideoState::getDuration, in the unit of the time arguments
getDuration == Duration * TimeUnit

\* a position that is not clamped at zero
seekTo_pos_noFloor(time) == Min(getDuration, time) \div TimeUnit

\* the position seekTo posts: (uint64_t)(min(getDuration(), max(0.0, time)) * AV_TIME_BASE)
seekTo_pos(time) == Min(getDuration, Max(0, time)) \div TimeUnit

\* the times the driver seeks to
SeekTimes == { 0 - 5 * AV_TIME_BASE * TimeUnit, 1,
               getDuration, getDuration + 100 * AV_TIME_BASE * TimeUnit }

\* VideoState::seekTo
seekTo ==
    /\ dpc = "open"
    /\ seeks_left > 0
    /\ \E time \in SeekTimes :
         /\ mSeekPos' = seekTo_pos(time)
         /\ seekArg' = time
    /\ mSeekRequested' = TRUE
    /\ seeks_left' = seeks_left - 1
    /\ displayed' = <<>>
    /\ ended' = FALSE
    /\ applied' = -1
    /\ UNCHANGED <<gCfg, aq_put, gQHist, now, flush_pkt, videoq, audioq, gStreams, mQuit,
                   mVideoEnded, mPaused, gPict, frame_last_pts, video_clock,
                   mExternalClock, gParse, gVideo, gAudio, dpc,
                   fed_flush, qp_blocked>>

\* VideoState::setPaused
setPaused ==
    /\ dpc = "open"
    /\ \E isPaused \in BOOLEAN :
         /\ mPaused' = isPaused
         /\ mExternalClock' = ExternalClock_setPaused(mExternalClock, isPaused)
    /\ UNCHANGED <<gCfg, gHist2, gQHist, now, flush_pkt, videoq, audioq, gStreams, mQuit,
                   mSeekRequested, mSeekPos, mVideoEnded, gPict, frame_last_pts,
                   video_clock, gParse, gVideo, gAudio, dpc, gHist>>

\* wall-clock time passes
Tick ==
    /\ dpc = "open"
    /\ now < MaxTicks * FrameDur
    /\ now' = now + FrameDur
    /\ UNCHANGED <<gCfg, gHist2, gQHist, flush_pkt, videoq, audioq, gStreams, mQuit, gFlags,
                   gPict, frame_last_pts, video_clock, mExternalClock, gParse,
                   gVideo, gAudio, dpc, gHist>>

\* deinit: this->mQuit = true
D_Quit ==
    /\ dpc = "open"
    /\ mQuit' = TRUE
    /\ dpc' = "d_flush"
    /\ UNCHANGED <<gCfg, gHist2, gQHist, now, flush_pkt, videoq, audioq, gStreams, gFlags,
                   gPict, frame_last_pts, video_clock, mExternalClock, gParse,
                   gVideo, gAudio, gHist>>

\* deinit: this->audioq.flush(); this->videoq.flush(); mAudioDecoder.reset()
D_Flush ==
    /\ dpc = "d_flush"
    /\ audioq' = PQ_flush(audioq)
    /\ videoq' = PQ_flush(videoq)
    /\ vpc' = Notified(vpc)
    /\ apc' = IF apc = "idle" THEN apc ELSE "done"
    /\ dpc' = "d_join_p"
    /\ UNCHANGED <<gCfg, gHist2, gQHist, now, flush_pkt, gStreams, mQuit, gFlags,
                   gPict, frame_last_pts, video_clock, mExternalClock, gParse,
                   vpkt, vpts, apkt, audio_clock, gHist>>

\* deinit: if (this->parse_thread) this->parse_thread.reset(), the join of
\* the parse thread
D_JoinParse ==
    /\ dpc = "d_join_p"
    /\ IF res.parse_thread
       THEN /\ ppc = "done"
            /\ res' = [res EXCEPT !.parse_thread = FALSE, !.joined = @ + 1]
       ELSE res' = res
    /\ dpc' = "d_join_v"
    /\ UNCHANGED <<cfg, av_sync_default, reopens_left, gHist2, gQHist, now, flush_pkt, videoq, audioq, gStreams, mQuit, gFlags,
                   gPict, frame_last_pts, video_clock, mExternalClock, gParse,
                   gVideo, gAudio, gHist>>

\* a reset of video_thread that does not wait for the thread
D_JoinVideo_noJoin ==
    /\ dpc = "d_join_v"
    /\ dpc' = "d_release"
    /\ UNCHANGED <<gCfg, gHist2, gQHist, now, flush_pkt, videoq, audioq, gStreams, mQuit, gFlags,
                   gPict, frame_last_pts, video_clock, mExternalClock, gParse,
                   gVideo, gAudio, gHist>>

\* deinit: if (this->video_thread) this->video_thread.reset(), the join of
\* the video thread
D_JoinVideo ==
    /\ dpc = "d_join_v"
    /\ IF res.video_thread
       THEN /\ vpc = "done"
            /\ res' = [res EXCEPT !.video_thread = FALSE, !.joined = @ + 1]
       ELSE res' = res
    /\ dpc' = "d_release"
    /\ UNCHANGED <<cfg, av_sync_default, reopens_left, gHist2, gQHist, now, flush_pkt, videoq, audioq, gStreams, mQuit, gFlags,
                   gPict, frame_last_pts, video_clock, mExternalClock, gParse,
                   gVideo, gAudio, gHist>>

\* a release that closes the container without the test of format_ctx
D_Release_unguarded ==
    /\ dpc = "d_release"
    /\ audio_st' = FALSE
    /\ video_st' = FALSE
    /\ res' = [res EXCEPT !.format_ctx = FALSE, !.freed = @ + 1]
    /\ dpc' = "closed"
    /\ UNCHANGED <<cfg, av_sync_default, reopens_left, gHist2, gQHist, now, flush_pkt, videoq, audioq, av_sync_type, mQuit,
                   gFlags, gPict, frame_last_pts, video_clock, mExternalClock,
                   gParse, gVideo, gAudio, gHist>>

\* deinit: the release of the codec contexts, the container and the frames,
\* each under the test of its pointer
D_Release ==
    /\ dpc = "d_release"
    /\ audio_st' = FALSE
    /\ video_st' = FALSE
    /\ res' = IF res.format_ctx
              THEN [res EXCEPT !.format_ctx = FALSE, !.freed = @ + 1]
              ELSE res
    /\ dpc' = "closed"
    /\ UNCHANGED <<cfg, av_sync_default, reopens_left, gHist2, gQHist, now, flush_pkt, videoq, audioq, av_sync_type, mQuit,
                   gFlags, gPict, frame_last_pts, video_clock, mExternalClock,
                   gParse, gVideo, gAudio, gHist>>

deinit ==
    \/ D_Quit \/ D_Flush \/ D_JoinParse \/ D_JoinVideo \/ D_Release

\* the first step of a deinit call on a session that holds nothing: one that
\* was never opened, or one that a deinit call has closed (~VideoState after
\* an explicit deinit)
D_QuitAgain ==
    /\ dpc \in {"new", "closed"}
    /\ mQuit' = TRUE
    /\ dpc' = "d_flush"
    /\ UNCHANGED <<gCfg, gHist2, gQHist, now, flush_pkt, videoq, audioq, gStreams, gFlags,
                   gPict, frame_last_pts, video_clock, mExternalClock, gParse,
                   gVideo, gAudio, gHist>>

----------------------------------------------------------------------------
(* The specifications *)

\* the parse thread: its loop, its exit, and its seek handling for each queue
ParseLoop == P_Start \/ P_Iter
ParseExit == P_LoopQuit \/ P_Exit
ParseSeekVideo ==
    \/ P_SeekBegin \/ P_Seek \/ P_SeekVideoClear \/ P_SeekVideoPts
    \/ P_SeekVideoPut \/ P_SeekPictq \/ P_SeekClock \/ P_SeekDone
    \/ P_IterAfterSeek
ParseSeekAudio == P_SeekAudioClear \/ P_SeekAudioPts \/ P_SeekAudioPut
ParseThread == ParseLoop \/ ParseExit \/ ParseSeekVideo \/ ParseSeekAudio

\* A video-only session with seeks and teardown
Init == InitWith({VideoOnly}, {AV_SYNC_VIDEO_MASTER}, MaxSeeks)

Next ==
    \/ init
    \/ ParseLoop
    \/ ParseExit
    \/ ParseSeekVideo
    \/ VideoThread
    \/ V_SpuriousWakeup
    \/ update
    \/ seekTo
    \/ deinit

Spec == Init /\ [][Next]_vars

\* Playback of every container under every sync mode, with the wall clock
\* and pausing, without seeks
InitPlay == InitWith(Configs, SyncTypes, 0)

NextPlay ==
    \/ init
    \/ ParseLoop
    \/ ParseExit
    \/ VideoDecode
    \/ AudioThread
    \/ V_SpuriousWakeup
    \/ A_SpuriousWakeup
    \/ update
    \/ setPaused
    \/ Tick
    \/ deinit

SpecPlay == InitPlay /\ [][NextPlay]_vars

\* A video-only session under every sync mode, with the wall clock and one
\* seek, without teardown
InitSync == InitWith({VideoOnly}, SyncTypes, 1)

NextSync ==
    \/ init
    \/ ParseLoop
    \/ ParseSeekVideo
    \/ VideoDecode
    \/ V_SpuriousWakeup
    \/ update
    \/ seekTo
    \/ Tick

SpecSync == InitSync /\ [][NextSync]_vars

\* A video-only session in video-master mode with one seek and teardown;
\* every runnable worker thread is scheduled eventually
InitLive == InitWith({VideoOnly}, {AV_SYNC_VIDEO_MASTER}, 1)

NextLive ==
    \/ init
    \/ ParseLoop
    \/ ParseExit
    \/ ParseSeekVideo
    \/ VideoDecode
    \/ V_SpuriousWakeup
    \/ update
    \/ seekTo
    \/ deinit

FairLive ==
    /\ InitLive
    /\ [][NextLive]_vars
    /\ WF_vars(VideoDecode)
    /\ WF_vars(ParseLoop \/ ParseExit \/ ParseSeekVideo)

\* Unpaused playback to the end of every container that has a stream, under
\* the video master and the external master, with the wall clock; the driver
\* keeps calling update(), time passes, every runnable worker thread is
\* scheduled eventually, and the parse thread obtains a queue's mutex that is
\* released again and again
InitEnd ==
    InitWith({c \in Configs : VideoOpens(c) \/ AudioOpens(c)},
             {AV_SYNC_VIDEO_MASTER, AV_SYNC_EXTERNAL_MASTER}, 0)

NextEnd ==
    \/ init
    \/ ParseLoop
    \/ VideoDecode
    \/ AudioThread
    \/ V_SpuriousWakeup
    \/ A_SpuriousWakeup
    \/ update
    \/ Tick

FairEnd ==
    /\ InitEnd
    /\ [][NextEnd]_vars
    /\ SF_vars(ParseLoop)
    /\ WF_vars(VideoDecode)
    /\ WF_vars(AudioThread)
    /\ WF_vars(update)
    /\ WF_vars(Tick)

\* The same session; the worker threads and deinit, once called, are
\* scheduled whenever they can run
FairQuit ==
    /\ InitLive
    /\ [][NextLive]_vars
    /\ WF_vars(VideoDecode)
    /\ WF_vars(ParseLoop \/ ParseExit \/ ParseSeekVideo)
    /\ WF_vars(D_Flush \/ D_JoinParse \/ D_JoinVideo \/ D_Release)

\* PacketQueue as a unit: a client that calls put, flush and sets the stop
\* flag of the session at any time, with the video thread as the consumer
Q_put ==
    /\ dpc = "open"
    /\ Len(vq_put) < NFrames
    /\ ~VideoqLocked
    /\ LET n == OwnNode(VideoPkt(Len(vq_put))) IN
         /\ videoq' = PQ_put(videoq, n)
         /\ vq_put' = Append(vq_put, n)
    /\ vpc' = Notified(vpc)
    /\ UNCHANGED <<gCfg, gHist2, vq_got, vq_cleared, now, flush_pkt, audioq, gStreams, mQuit,
                   gFlags, gPict, frame_last_pts, video_clock, mExternalClock,
                   gParse, vpkt, vpts, gAudio, dpc, gHist>>

Q_flush ==
    /\ dpc = "open"
    /\ ~videoq.flushing
    /\ videoq' = PQ_flush(videoq)
    /\ vpc' = Notified(vpc)
    /\ UNCHANGED <<gCfg, gHist2, gQHist, now, flush_pkt, audioq, gStreams, mQuit,
                   gFlags, gPict, frame_last_pts, video_clock, mExternalClock,
                   gParse, vpkt, vpts, gAudio, dpc, gHist>>

Q_quit ==
    /\ dpc = "open"
    /\ ~mQuit
    /\ mQuit' = TRUE
    /\ UNCHANGED <<gCfg, gHist2, gQHist, now, flush_pkt, videoq, audioq, gStreams,
                   gFlags, gPict, frame_last_pts, video_clock, mExternalClock,
                   gParse, gVideo, gAudio, dpc, gHist>>

InitQueue == InitWith({VideoOnly}, {AV_SYNC_VIDEO_MASTER}, 0)

NextQueue ==
    \/ init
    \/ Q_put
    \/ Q_flush
    \/ Q_quit
    \/ VideoDecode
    \/ V_SpuriousWakeup
    \/ update

SpecQueue == InitQueue /\ [][NextQueue]_vars

\* ExternalClock as a unit: a client that pauses, resumes and sets the clock
\* of an open session at any time while wall time passes
C_set ==
    /\ dpc = "open"
    /\ seeks_left > 0
    /\ \E time \in SeekTimes :
         mExternalClock' = ExternalClock_set(mExternalClock, seekTo_pos(time))
    /\ seeks_left' = seeks_left - 1
    /\ UNCHANGED <<gCfg, gHist2, gQHist, now, flush_pkt, videoq, audioq, gStreams, mQuit,
                   gFlags, gPict, frame_last_pts, video_clock, gParse, gVideo,
                   gAudio, dpc, displayed, seekArg, fed_flush, qp_blocked>>

InitClock == InitWith({VideoOnly}, {AV_SYNC_EXTERNAL_MASTER}, MaxSeeks)

NextClock ==
    \/ init
    \/ setPaused
    \/ Tick
    \/ C_set

SpecClock == InitClock /\ [][NextClock]_vars

\* A session on the container with both streams when no audio factory is
\* registered
NoFactory == [video |-> TRUE, audio |-> TRUE, factory |-> FALSE]

InitNoFactory == InitWith({NoFactory}, {AV_SYNC_EXTERNAL_MASTER}, 0)

NextNoFactory ==
    \/ init
    \/ ParseLoop
    \/ VideoDecode
    \/ V_SpuriousWakeup
    \/ update
    \/ Tick

SpecNoFactory == InitNoFactory /\ [][NextNoFactory]_vars

\* Sessions on the video-only container and on the container without
\* streams, with teardown
NoStreams == [video |-> FALSE, audio |-> FALSE, factory |-> FALSE]

InitExit == InitWith({VideoOnly, NoStreams}, {AV_SYNC_VIDEO_MASTER}, 0)

NextExit ==
    \/ init
    \/ ParseLoop
    \/ ParseExit
    \/ VideoDecode
    \/ V_SpuriousWakeup
    \/ update
    \/ deinit

SpecExit == InitExit /\ [][NextExit]_vars

\* A video-only session with seeks and no display: the packet queue between
\* the parse thread and the video thread
InitSeeks == InitWith({VideoOnly}, {AV_SYNC_VIDEO_MASTER}, MaxSeeks)

NextSeeks ==
    \/ init
    \/ ParseLoop
    \/ ParseSeekVideo
    \/ VideoThread
    \/ V_SpuriousWakeup
    \/ seekTo

SpecSeeks == InitSeeks /\ [][NextSeeks]_vars

\* A video-only session that is closed, closed again, and opened again
InitReopen == InitSession({VideoOnly}, {AV_SYNC_VIDEO_MASTER}, 0, MaxReopens)

NextReopen ==
    \/ init
    \/ reinit
    \/ ParseLoop
    \/ ParseExit
    \/ VideoDecode
    \/ V_SpuriousWakeup
    \/ update
    \/ deinit
    \/ D_QuitAgain

SpecReopen == InitReopen /\ [][NextReopen]_vars

\* A session on the container with both streams, with one seek
AudioVideo == [video |-> TRUE, audio |-> TRUE, factory |-> TRUE]

InitSeekAV == InitWith({AudioVideo}, {AV_SYNC_EXTERNAL_MASTER}, 1)

NextSeekAV ==
    \/ init
    \/ ParseLoop
    \/ ParseSeekVideo
    \/ ParseSeekAudio
    \/ VideoThread
    \/ AudioThread
    \/ V_SpuriousWakeup
    \/ A_SpuriousWakeup
    \/ update
    \/ seekTo

SpecSeekAV == InitSeekAV /\ [][NextSeekAV]_vars

----------------------------------------------------------------------------
(* Properties of the packet queues *)

\* the byte sizes of the packets of a list of nodes, added up
RECURSIVE SumSizes(_)
SumSizes(nodes) ==
    IF nodes = <<>> THEN 0
    ELSE NodePkt(Head(nodes)).size + SumSizes(Tail(nodes))

\* C1: since the last clear of videoq, the nodes that successful get calls
\* returned, followed by the nodes still queued, are exactly the nodes that
\* were put, in the order of the put calls: get returns each node once, in
\* insertion order, and as many gets succeed as there were puts less the
\* nodes still queued.
C1_Fifo == vq_got \o videoq.pkts = vq_put

\* a sentinel and a data packet were returned, in the order they were put,
\* while more packets wait in the queue
C1_FifoReached ==
    /\ Len(vq_got) >= 2
    /\ vq_got[1] = FlushNode
    /\ vq_got[2].ref = "own"
    /\ Len(videoq.pkts) >= 2
    /\ ~mQuit

\* C2: at every quiescent point of a packet queue, nb_packets is the number
\* of nodes linked in it and size is the sum of the byte sizes of their
\* packets.
C2_Accounting ==
    /\ videoq.nb_packets = Len(videoq.pkts)
    /\ videoq.size = SumSizes(videoq.pkts)
    /\ audioq.nb_packets = Len(audioq.pkts)
    /\ audioq.size = SumSizes(audioq.pkts)

\* after a clear, puts of the sentinel and of data packets, and gets, the
\* queue holds two data packets
C2_AccountingReached ==
    /\ videoq.nb_packets = 2
    /\ videoq.size = 2 * VideoPktSize
    /\ Len(vq_got) >= 2
    /\ vq_put[1] = FlushNode

\* C4: when clear() has returned, the queue is empty and its byte size and
\* its packet count are zero, whatever it held.  The parse thread is at
\* "s_vpts" when its call of videoq.clear() has returned, and it is the only
\* thread that puts.
C4_ClearEmpties ==
    ppc = "s_vpts" =>
        /\ videoq.pkts = <<>>
        /\ videoq.size = 0
        /\ videoq.nb_packets = 0

\* clear() has returned, and it dropped a queue that held a sentinel and
\* data packets
C4_ClearReached ==
    /\ ppc = "s_vpts"
    /\ Len(vq_cleared) >= 2
    /\ \E i \in 1 .. Len(vq_cleared) : vq_cleared[i] = FlushNode
    /\ \E i \in 1 .. Len(vq_cleared) : vq_cleared[i].ref = "own"

\* C3: once flush() has been called on a queue, no consumer is left asleep
\* in get on it: a consumer that was blocked on the empty queue has been
\* woken, or has not yet gone to sleep and sees the flag.
C3_FlushWakesGet == videoq.flushing => vpc # "get_waiting"

----------------------------------------------------------------------------
(* Properties of the picture ring buffer *)

\* C5: the count of the ring buffer stays between 0 and
\* VIDEO_PICTURE_QUEUE_SIZE under every interleaving of queue_picture,
\* video_refresh and the reset of the parse thread's seek handling.
C5_PictqBounded == pictq_size >= 0 /\ pictq_size <= VIDEO_PICTURE_QUEUE_SIZE

\* the buffer is full again after a seek reset it and a refresh consumed
\* from it
C5_PictqBoundedReached ==
    /\ pictq_size = VIDEO_PICTURE_QUEUE_SIZE
    /\ vq_put # <<>>
    /\ vq_put[1] = FlushNode
    /\ ~mSeekRequested
    /\ ppc = "loop"
    /\ displayed # <<>>

\* C6: a producer that waits in queue_picture because the buffer was full,
\* when a refresh or a reset has made room and the stop flag is not set,
\* eventually holds a write slot (or the stop flag is set meanwhile).
C6_ProducerUnblocks ==
    (vpc = "qp_wait" /\ qp_blocked /\ pictq_size < VIDEO_PICTURE_QUEUE_SIZE /\ ~mQuit)
        ~> (vpc = "qp_write" \/ mQuit)

\* the producer found the buffer full for this frame and now holds a slot
C6_ProducerUnblocksReached ==
    /\ vpc = "qp_write"
    /\ qp_blocked
    /\ ~mQuit

----------------------------------------------------------------------------
(* Properties of seeking *)

\* C7: seekTo(t) posts a position within [0, duration]: for t < 0 the
\* position that seekTo(0) posts, for t > duration the position that
\* seekTo(duration) posts; and every call of seekTo sets the seek-requested
\* flag.
C7_SeekClamps ==
    /\ [](/\ mSeekPos >= 0
          /\ mSeekPos <= Duration
          /\ seekArg < 0 => mSeekPos = seekTo_pos(0)
          /\ seekArg > getDuration => mSeekPos = seekTo_pos(getDuration))
    /\ [][seeks_left' < seeks_left => mSeekRequested']_vars

\* seekTo was called with a time below zero
C7_SeekBelowReached ==
    /\ seekArg < 0
    /\ mSeekPos = 0
    /\ mSeekRequested

\* C8: when the video decode loop has dequeued a flush sentinel, it does not
\* feed it to the decoder but resets the ring buffer (count, read index and
\* write index zero) and then sets the last-displayed timestamp to the
\* timestamp the sentinel carried.
C8_SentinelResets ==
    [][/\ (vpc = "got" /\ vpkt.ref = "flush_pkt" /\ vpc' # "got")
            => (vpc' = "flush_reset" /\ ~fed_flush')
       /\ (vpc = "flush_reset" /\ vpc' = "flush_pts")
            => (pictq_size' = 0 /\ pictq_rindex' = 0 /\ pictq_windex' = 0)
       /\ (vpc = "flush_pts" /\ vpc' = "get")
            => frame_last_pts' = TsToTime(vpkt.pkt.pts, VideoTimeBase)]_vars

----------------------------------------------------------------------------
(* Properties of playback *)

AllFramePts == [k \in 1 .. NFrames |-> (k - 1) * FrameDur]

IsPrefix(s, t) == Len(s) <= Len(t) /\ \A i \in 1 .. Len(s) : s[i] = t[i]

Increasing(s) == \A i \in 1 .. Len(s) - 1 : s[i] < s[i + 1]

\* every packet was read and decoded, and every picture left the ring buffer
Drained ==
    /\ rd = Len(Container(cfg))
    /\ videoq.pkts = <<>>
    /\ vpc \in {"get", "get_block", "get_waiting"}
    /\ pictq_size = 0

----------------------------------------------------------------------------
(* Properties of the end of the stream *)

\* the video thread holds a dequeued packet or the frame decoded from it
InDecode == vpc \in {"got", "qp_wait", "qp_check", "qp_write", "qp_locked"}

\* C11: update() has returned false only if the container was read to its
\* end and no frame of the stream remains in a packet queue, in decode or
\* in the ring buffer.
C11_EndedWhenDrained ==
    ended =>
        /\ rd = Len(Container(cfg))
        /\ videoq.pkts = <<>>
        /\ audioq.pkts = <<>>
        /\ pictq_size = 0
        /\ ~InDecode

----------------------------------------------------------------------------
(* Properties of an applied seek *)

\* the packets of a stream that av_read_frame returns from the position the
\* applied seek landed on
PostSeekPkts(stream) ==
    LET C == Container(cfg)
        land == SeekLanding(cfg, IF video_st THEN "video" ELSE "audio",
                            av_rescale_q(applied, IF video_st THEN VideoTimeBase
                                                  ELSE AudioTimeBase))
        OfStream(p) == p.stream = stream
    IN  SelectSeq(SubSeq(C, land + 1, Len(C)), OfStream)

\* the nodes put are one sentinel, then packets read after the seek, in order
SentinelFirst(h, stream) ==
    /\ h # <<>>
    /\ h[1] = FlushNode
    /\ Len(h) - 1 <= Len(PostSeekPkts(stream))
    /\ \A i \in 2 .. Len(h) : h[i] = OwnNode(PostSeekPkts(stream)[i - 1])

\* C13: after a successful seek, the nodes put in each active packet queue
\* since the seek cleared it are exactly one flush sentinel followed by the
\* packets read from the post-seek position, in order; no packet read
\* before the seek follows the sentinel.
C13_SentinelFirst ==
    applied >= 0 =>
        /\ video_st => SentinelFirst(vq_put, "video")
        /\ audio_st => SentinelFirst(aq_put, "audio")

\* a seek was applied during playback, and packets read after it follow the
\* sentinel in both queues
C13_SentinelFirstReached ==
    /\ applied >= 0
    /\ video_st /\ audio_st
    /\ Len(vq_put) >= 2
    /\ Len(aq_put) >= 2
    /\ Len(vq_cleared) = 0
    /\ ppc = "loop"

\* C14: after the parse thread has applied seekTo(T), the first frame that
\* update() displays has a timestamp p with T <= p < T + one frame duration,
\* and no frame before T (none of the pre-seek timeline) is displayed.
C14_FirstFrameAtTarget ==
    (applied >= 0 /\ displayed # <<>>) =>
        /\ applied <= displayed[1]
        /\ displayed[1] < applied + FrameDur
        /\ \A i \in 1 .. Len(displayed) : displayed[i] >= applied

----------------------------------------------------------------------------
(* Properties of back-pressure *)

\* C15 as stated: the byte count of each packet queue never grows beyond its
\* ceiling.
C15_WithinCeiling ==
    /\ audioq.size <= MAX_AUDIOQ_SIZE
    /\ videoq.size <= MAX_VIDEOQ_SIZE

\* C15: the parse loop reads a packet only while no active queue is over
\* its ceiling, so the byte count of a queue passes its ceiling by at most
\* the size of one packet.
C15_AtMostOnePacketOver ==
    /\ [](/\ audioq.size <= MAX_AUDIOQ_SIZE + AudioPktSize
          /\ videoq.size <= MAX_VIDEOQ_SIZE + VideoPktSize)
    /\ [][(ppc \in {"loop", "io"} /\ rd' = rd + 1) => ~OverCeiling]_vars

\* the parse loop holds back: the video queue is over its ceiling while
\* packets of the container remain to be read
C15_HoldsBackReached ==
    /\ videoq.size > MAX_VIDEOQ_SIZE
    /\ rd < Len(Container(cfg))
    /\ ppc = "loop"
    /\ ~mQuit

----------------------------------------------------------------------------
(* Properties of the stop flag and of deinit *)

\* C16: once the stop flag is set, the video thread does not stay in a
\* wait: whenever the flag is set, the thread is eventually neither in
\* PacketQueue::get's wait on the empty queue nor in the full-wait of
\* queue_picture.
C16_QuitWakesWorkers ==
    [](mQuit => <>(vpc \notin {"get_block", "get_waiting", "qp_wait"}))

\* C17: a failure inside a worker sets the stop flag: a video thread that
\* has left run() has left it with mQuit set, whether get returned -1 or
\* the decoder threw.
C17_FailureSetsQuit == vpc = "done" => mQuit

\* deinit is at or past the release of the contexts and the frames
Releasing == dpc \in {"d_release", "closed"}

\* C18: the contexts and the frame buffers are released only once both
\* workers have terminated and been joined, and no step of a worker is
\* taken from then on.
C18_ReleaseAfterJoin ==
    /\ [](Releasing => (ppc \in {"idle", "done"} /\ vpc \in {"idle", "done"}))
    /\ [][Releasing => ~(ParseThread \/ VideoThread)]_vars

\* deinit has released everything after both workers ran and showed a frame
C18_ReleasedReached ==
    /\ dpc = "closed"
    /\ ppc = "done"
    /\ vpc = "done"
    /\ ~video_st
    /\ displayed # <<>>

\* C19: deinit, once called, completes: both workers exit, both joins
\* return and the release is done.
C19_DeinitCompletes == (dpc = "d_flush") ~> (dpc = "closed")

----------------------------------------------------------------------------
(* Seek requests *)

\* C20: no posted seek request is lost: once seekTo has been called, the
\* request flag is clear only when the target the parse thread took is the
\* latest one posted.
C20_NoSeekLost ==
    (seeks_left < MaxSeeks /\ ~mSeekRequested) => seek_target = mSeekPos

----------------------------------------------------------------------------
(* Setup failures *)

\* init threw, or returned with no stream opened
SetupFailed == dpc = "failed" \/ (dpc = "open" /\ ~VideoOpens(cfg) /\ ~AudioOpens(cfg))

\* C21: a setup failure is reported by init itself and leaves no session
\* running: init has thrown and no worker has been started.
C21_SetupFailureIsHard ==
    SetupFailed => (dpc = "failed" /\ ppc = "idle" /\ vpc = "idle" /\ apc = "idle")

----------------------------------------------------------------------------
(* The driver's refresh step *)

----------------------------------------------------------------------------
(* PacketQueue::get and PacketQueue::flush *)

\* C23: a call of get with the stop flag set returns -1 and removes nothing,
\* even from a non-empty queue; with the stop flag clear it hands out the
\* head of a non-empty queue, flushing or not, and on an empty flushing
\* queue it returns -1.
C23_GetOutcome ==
    [][(vpc = "get" /\ vpc' # "get") =>
          IF mQuit
          THEN vpc' = "done" /\ videoq' = videoq
          ELSE IF videoq.pkts # <<>>
          THEN /\ vpc' = "got"
               /\ vpkt'.pkt = NodePkt(Head(videoq.pkts))
               /\ videoq'.pkts = Tail(videoq.pkts)
          ELSE videoq.flushing => (vpc' = "done" /\ videoq' = videoq)]_vars

\* with the stop flag clear, the consumer has taken every packet put in a
\* queue that was flushed, and then got -1
C23_FlushedDrainReached ==
    /\ ~mQuit
    /\ videoq.flushing
    /\ vpc = "done"
    /\ Len(vq_got) = NFrames
    /\ pictq_size = 0

\* C24: flush() changes only the flushing mark: the list of packets, the
\* packet count and the byte total are the same before and after it.
C24_FlushKeepsContents ==
    [][(~videoq.flushing /\ videoq'.flushing) =>
          /\ videoq'.pkts = videoq.pkts
          /\ videoq'.nb_packets = videoq.nb_packets
          /\ videoq'.size = videoq.size]_vars

\* a flushed queue holds two packets, with their count and their bytes,
\* after the consumer has stopped
C24_FlushedNonEmptyReached ==
    /\ videoq.flushing
    /\ Len(videoq.pkts) = 2
    /\ videoq.nb_packets = 2
    /\ videoq.size = 2 * VideoPktSize
    /\ vpc = "done"

----------------------------------------------------------------------------
(* The handling of a seek request *)

\* the one seek of the session was handled and av_seek_frame failed
SeekFailed == seeks_left = 0 /\ ~mSeekRequested /\ applied = -1 /\ dpc = "open"

HasSentinel(h) == \E i \in 1 .. Len(h) : h[i].ref = "flush_pkt"

\* C25: a failed container seek changes neither packet queue, nor the ring
\* buffer, nor the external clock; no sentinel is put, the request flag is
\* cleared, and the parse loop goes on without setting the stop flag.
C25_FailedSeekIsIgnored ==
    /\ [][(ppc = "seek" /\ ppc' \notin {"seek", "s_aclear", "s_vclear", "s_pictq"}) =>
             /\ ppc' = "s_done"
             /\ UNCHANGED <<videoq, audioq, gPict, mExternalClock, flush_pkt,
                            mQuit, rd, vq_cleared>>]_vars
    /\ [](SeekFailed =>
             /\ ~HasSentinel(vq_put)
             /\ ~HasSentinel(aq_put)
             /\ vq_cleared = <<>>
             /\ ppc \in {"io", "loop"}
             /\ ~mQuit)

\* after the failed seek the parse loop has read the container to its end
C25_FailedSeekReached ==
    /\ SeekFailed
    /\ ppc = "loop"
    /\ rd = Len(Container(cfg))
    /\ displayed # <<>>

OnlySentinels(pkts) == \A i \in 1 .. Len(pkts) : pkts[i].ref = "flush_pkt"

\* C26: when a seek has succeeded, the loop pass that handled it comes to
\* its read of the next packet with every active queue cleared of packets,
\* the external clock reading the requested time and the request flag
\* clear, no packet having been read since the seek; and its reset of the
\* ring buffer sets the count and both indices to zero.
C26_SeekResetsBeforeRead ==
    /\ []((ppc = "io" /\ applied >= 0) =>
             /\ video_st => (OnlySentinels(videoq.pkts) /\ videoq.nb_packets <= 1)
             /\ audio_st => (OnlySentinels(audioq.pkts) /\ audioq.nb_packets <= 1)
             /\ get_external_clock = applied
             /\ ~mSeekRequested
             /\ rd = SeekLanding(cfg, "video", av_rescale_q(applied, VideoTimeBase)))
    /\ [][(ppc = "s_pictq" /\ ppc' # "s_pictq") =>
             (pictq_size' = 0 /\ pictq_rindex' = 0 /\ pictq_windex' = 0)]_vars

\* a seek to a time after the start has been applied and the pass is about
\* to read on, each queue holding its sentinel
C26_SeekAppliedReached ==
    /\ ppc = "io"
    /\ applied > 0
    /\ videoq.pkts = <<FlushNode>>
    /\ audioq.pkts = <<FlushNode>>
    /\ pictq_size = 0

\* the packet the audio decoder holds came out of a sentinel node
AudioGotSentinel == apkt.data = "FLUSH" \/ apkt = PacketDefaults

\* C27: the sentinel a consumer dequeues carries the seek target in the time
\* base of its own stream: the audio decoder's in the audio time base, the
\* video thread's in the video time base.
C27_SentinelInOwnTimeBase ==
    /\ AudioGotSentinel => apkt.pts = av_rescale_q(seek_target, AudioTimeBase)
    /\ vpkt.ref = "flush_pkt" => vpkt.pkt.pts = av_rescale_q(seek_target, VideoTimeBase)

----------------------------------------------------------------------------
(* The refresh step *)

\* the slot of the j-th buffered picture, counted from the head
Slot(j) == (pictq_rindex + j) % PICTQ_LEN
\* the picture in a slot is late against the master clock
Late(slot) == pictq[slot] + threshold <= get_master_clock
\* the step is a refresh that displays a picture
Displays == Len(displayed') = Len(displayed) + 1

\* C28: outside the video master, a refresh step whose head picture is late
\* displays the first buffered picture that is not late, or the last
\* buffered picture when all are late, and takes the skipped pictures and
\* the displayed one off the count.
C28_SkipsLateFrames ==
    [][(av_sync_type # AV_SYNC_VIDEO_MASTER /\ Displays /\ Late(pictq_rindex)) =>
          LET NotLate == {j \in 0 .. pictq_size - 1 : ~Late(Slot(j))}
              k == IF NotLate = {} THEN pictq_size - 1
                   ELSE CHOOSE j \in NotLate : \A l \in NotLate : j <= l
          IN  /\ displayed'[Len(displayed')] = pictq[Slot(k)]
              /\ pictq_size' = pictq_size - (k + 1)
              /\ pictq_rindex' = Slot(k + 1)]_vars

\* the first refresh found both buffered pictures late and displayed the
\* second
C28_SkippedReached ==
    /\ av_sync_type # AV_SYNC_VIDEO_MASTER
    /\ cfg.video
    /\ displayed = <<AllFramePts[2]>>
    /\ pictq_rindex = 2
    /\ pictq_size = 0

\* the step is the driver's and changes the ring buffer, the last-displayed
\* timestamp or what was displayed
RefreshActs ==
    /\ gVideo' = gVideo
    /\ gParse' = gParse
    /\ \/ gPict' # gPict
       \/ frame_last_pts' # frame_last_pts
       \/ displayed' # displayed

\* the timestamp of the head picture is greater than the master clock plus
\* 0.03 s
HeadAhead == pictq[pictq_rindex] - get_master_clock > 30000

\* C29: a refresh step displays nothing and leaves the count, the read
\* index, the write index and the last-displayed timestamp as they were when
\* the buffer is empty, and outside the video master also when the head
\* picture is ahead of the master clock by more than the threshold.
C29_NothingWhenEmptyOrEarly ==
    [][(\/ pictq_size = 0
        \/ (av_sync_type # AV_SYNC_VIDEO_MASTER /\ HeadAhead))
          => ~RefreshActs]_vars

\* outside the video master a picture was displayed and the next one waits
\* in the full buffer, ahead of the master clock, for the refresh steps
C29_HeldBackReached ==
    /\ dpc = "open"
    /\ av_sync_type # AV_SYNC_VIDEO_MASTER
    /\ displayed # <<>>
    /\ pictq_size = VIDEO_PICTURE_QUEUE_SIZE
    /\ HeadAhead
    /\ ~PictqLocked

\* C30: under the video master every refresh step on a non-empty buffer
\* displays the head picture, moves the read index on by one modulo the
\* buffer length, takes one off the count and sets the last-displayed
\* timestamp, which is the video clock, to the timestamp of that picture,
\* paused or not: the refresh displays, and the step of the driver that
\* changes the buffer changes it in that way.
C30_VideoMasterShowsHead ==
    /\ []((av_sync_type = AV_SYNC_VIDEO_MASTER /\ pictq_size > 0) =>
             (video_refresh.show /\ video_refresh.vp = pictq_rindex))
    /\ [][(av_sync_type = AV_SYNC_VIDEO_MASTER /\ pictq_size > 0 /\ RefreshActs) =>
             /\ displayed' = Append(displayed, pictq[pictq_rindex])
             /\ pictq_rindex' = (pictq_rindex + 1) % (VIDEO_PICTURE_QUEUE_SIZE + 1)
             /\ pictq_size' = pictq_size - 1
             /\ pictq_windex' = pictq_windex
             /\ frame_last_pts' = pictq[pictq_rindex]
             /\ get_video_clock' = pictq[pictq_rindex]]_vars

\* under the video master a paused session has displayed its first two
\* pictures
C30_PausedShownReached ==
    /\ av_sync_type = AV_SYNC_VIDEO_MASTER
    /\ mPaused
    /\ Len(displayed) = 2
    /\ frame_last_pts = AllFramePts[2]
    /\ pictq_rindex = 2

----------------------------------------------------------------------------
(* ExternalClock *)

\* the step calls neither ExternalClock::set nor init
NoClockSet == seeks_left' = seeks_left /\ dpc' = dpc

\* C31: the external clock is pausable and monotonic. Without a set, the
\* value of get() never decreases from one state to the next; it stays the
\* same while the clock is paused, however much wall time passes, and across
\* the step that pauses or resumes it, so that time spent paused is not
\* counted; and setPaused with the current state changes nothing.
C31_ClockPausable ==
    /\ [][NoClockSet =>
             /\ get_external_clock' >= get_external_clock
             /\ (mExternalClock.mPaused /\ mExternalClock'.mPaused)
                    => get_external_clock' = get_external_clock
             /\ mExternalClock'.mPaused # mExternalClock.mPaused
                    => get_external_clock' = get_external_clock
             /\ ~(mExternalClock.mPaused \/ mExternalClock'.mPaused)
                    => get_external_clock' - get_external_clock = now' - now]_vars
    /\ [](ExternalClock_setPaused(mExternalClock, mExternalClock.mPaused) = mExternalClock)

\* the clock ran for one frame, was paused for one frame and runs again: it
\* reads one frame while two have passed
C31_ResumedReached ==
    /\ dpc = "open"
    /\ seeks_left = MaxSeeks
    /\ now = 2 * FrameDur
    /\ ~mExternalClock.mPaused
    /\ get_external_clock = FrameDur

----------------------------------------------------------------------------
(* Sessions without a stream *)

\* C32: without an audio factory init completes with no audio stream: the
\* workers are started, no audio decoder runs, nothing is ever put in
\* audioq, and the back-pressure test is the test of videoq alone.
C32_NoFactoryNoAudio ==
    (dpc = "open" /\ cfg.audio /\ ~cfg.factory) =>
        /\ ~audio_st
        /\ ppc # "idle"
        /\ apc = "idle"
        /\ audioq = PacketQueueInit
        /\ aq_put = <<>>
        /\ OverCeiling = (video_st /\ videoq.size > MAX_VIDEOQ_SIZE)

\* without a factory the container was read to its end, its audio packets
\* dropped, and every picture displayed
C32_PlayedWithoutAudioReached ==
    /\ cfg = NoFactory
    /\ dpc = "open"
    /\ rd = Len(Container(cfg))
    /\ rd = 2 * NFrames
    /\ Len(vq_put) = NFrames
    /\ Len(displayed) = NFrames

\* C33: the stop flag is set once the parse thread has exited; and when
\* neither stream was opened it has exited without reading a packet of the
\* container and without putting anything in either queue.
C33_ParseExitSetsQuit ==
    ppc = "done" =>
        /\ mQuit
        /\ (~VideoOpens(cfg) /\ ~AudioOpens(cfg)) =>
               /\ rd = 0
               /\ videoq.pkts = <<>> /\ videoq.nb_packets = 0
               /\ audioq.pkts = <<>> /\ audioq.nb_packets = 0
               /\ vq_put = <<>>
               /\ aq_put = <<>>

\* the parse thread of a session without streams has exited
C33_NoStreamsExitReached ==
    /\ ~VideoOpens(cfg)
    /\ ~AudioOpens(cfg)
    /\ dpc = "open"
    /\ ppc = "done"
    /\ mQuit

----------------------------------------------------------------------------
(* The ring buffer *)

\* the slots counted as buffered
Buffered == {Slot(j) : j \in 0 .. pictq_size - 1}

\* C34: whenever pictq_mutex is free, the read and the write index are less
\* than the length of the slot array and the write index is the read index
\* plus the count, modulo that length; the count is less than the length,
\* so the slot at the write index is not a buffered one, and no step writes
\* a slot that is counted as buffered.
C34_RingConsistent ==
    /\ [](~PictqLocked =>
             /\ pictq_rindex \in 0 .. PICTQ_LEN - 1
             /\ pictq_windex \in 0 .. PICTQ_LEN - 1
             /\ pictq_windex = (pictq_rindex + pictq_size) % PICTQ_LEN
             /\ pictq_size \in 0 .. PICTQ_LEN - 1)
    /\ [][\A i \in 0 .. PICTQ_LEN - 1 : pictq'[i] # pictq[i] => i \notin Buffered]_vars

\* the buffer is full across the end of the slot array
C34_WrappedReached ==
    /\ ~PictqLocked
    /\ pictq_rindex = PICTQ_LEN - 1
    /\ pictq_windex = 1
    /\ pictq_size = 2

----------------------------------------------------------------------------
(* The flush sentinel in the queues *)

\* the positions of a list of nodes that hold the sentinel
SentinelsAt(pkts) == {i \in 1 .. Len(pkts) : pkts[i].ref = "flush_pkt"}

\* C35: a packet queue holds at most one flush sentinel, and a sentinel it
\* holds is its head element.
C35_OneSentinelAtHead ==
    /\ SentinelsAt(videoq.pkts) \subseteq {1}
    /\ SentinelsAt(audioq.pkts) \subseteq {1}

\* after the last seek the queue holds the new sentinel at its head and the
\* packets read after it; no sentinel has reached the decoder
C35_SentinelReplacedReached ==
    /\ seeks_left = 0
    /\ MaxSeeks >= 2
    /\ ~fed_flush
    /\ vq_got = <<>>
    /\ Len(videoq.pkts) >= 2
    /\ videoq.pkts[1] = FlushNode
    /\ Len(vq_put) = Len(videoq.pkts)

\* C36: the flush sentinel keeps its identity across uses: flush_pkt keeps
\* its data marker, and every packet the video thread has dequeued from a
\* sentinel node passes the test for the sentinel.
C36_SentinelKeepsIdentity ==
    /\ flush_pkt.data = "FLUSH"
    /\ (vpc = "got" /\ vpkt.ref = "flush_pkt") => IsFlushPacket(vpkt.pkt)

----------------------------------------------------------------------------
(* Seeking under back-pressure and after the end *)

\* the parse loop is at the top of a pass with a seek request to handle
SeekPending == ppc = "loop" /\ mSeekRequested /\ ~mQuit

\* C37: a pending seek request is taken up by the next pass of the parse
\* loop even under back-pressure: at the top of a pass with a request
\* pending the seek handling can start, over the ceiling or not, and the
\* pass neither reads a packet nor does anything else before it.
C37_SeekNotStarved ==
    /\ [](SeekPending => ENABLED P_SeekBegin)
    /\ [][SeekPending => (ppc' \in {"loop", "seek"} /\ rd' = rd
                          /\ mVideoEnded' = mVideoEnded)]_vars

\* the seek handling has started with videoq over its ceiling
C37_SeekOverCeilingReached ==
    /\ ppc = "seek"
    /\ videoq.size > MAX_VIDEOQ_SIZE
    /\ mSeekRequested

\* the step is a successful av_read_frame of the parse loop
ReadsPacket == ppc \in {"loop", "io"} /\ rd' = rd + 1

\* C38: the end of the stream is not final. While the ended mark is set and
\* the stop flag is not, the parse thread is still in its loop; every
\* successful read of a packet clears the mark, so that update() returns
\* true again; and nothing but such a read clears it.
C38_EndedNotSticky ==
    /\ []((mVideoEnded /\ ~mQuit) => ppc \in {"loop", "seek", "s_vclear", "s_vpts",
                                             "s_vput", "s_pictq", "s_clock",
                                             "s_done", "io"})
    /\ [][ReadsPacket => ~mVideoEnded']_vars
    /\ [][(mVideoEnded /\ ~mVideoEnded') => ReadsPacket]_vars

\* update() returned false after the stream had ended and a seek was posted,
\* and a packet read after the seek has cleared the mark
C38_PlayingAgainReached ==
    /\ dpc = "open"
    /\ seeks_left = 0
    /\ applied >= 0
    /\ ended
    /\ ~mVideoEnded
    /\ ~mQuit

----------------------------------------------------------------------------
(* The session closed and opened again *)

\* init has been called on the session after a deinit
Reopened == reopens_left < MaxReopens

\* C39: no step takes the flushing mark off a queue, a later init included;
\* and a get of the video thread that is called when the queue is flushing
\* and empty ends with "not available" and does not wait, also in the
\* session opened again, where both queues still carry the mark.
C39_FlushingIsForever ==
    /\ [][(videoq.flushing => videoq'.flushing)
          /\ (audioq.flushing => audioq'.flushing)]_vars
    /\ [](Reopened => (videoq.flushing /\ audioq.flushing))
    /\ [][(vpc = "get" /\ vpc' # vpc /\ videoq.flushing /\ videoq.pkts = <<>>)
          => vpc' = "done"]_vars

\* in the session opened again, with the stop flag clear, the video thread
\* has left its loop on the empty flushing queue while the parse thread runs
C39_ReopenedFlushingReached ==
    /\ Reopened
    /\ dpc = "open"
    /\ ~mQuit
    /\ videoq.flushing
    /\ videoq.pkts = <<>>
    /\ vpc = "done"
    /\ ppc = "loop"

\* the step belongs to a deinit call
DeinitStep == dpc' # dpc /\ dpc' \in {"d_flush", "d_join_p", "d_join_v", "d_release", "closed"}

\* the session holds no thread, no container and no stream
Bare ==
    /\ ~res.parse_thread /\ ~res.video_thread /\ ~res.format_ctx
    /\ ~audio_st /\ ~video_st

\* the state a deinit call leaves
Settled == Bare /\ mQuit /\ videoq.flushing /\ audioq.flushing

\* everything but the position of the driver, and that without the stop flag
\* and the queues
restOfDeinit ==
    <<cfg, av_sync_default, now, flush_pkt, av_sync_type, audio_st, video_st,
      mSeekRequested, mSeekPos, mVideoEnded, mPaused, pictq, pictq_size,
      pictq_rindex, pictq_windex, frame_last_pts, video_clock, mExternalClock,
      rd, ppc, seek_target, vpc, vpkt, vpts, apc, apkt, audio_clock, displayed,
      seekArg, seeks_left, fed_flush, qp_blocked, vq_put, vq_got, vq_cleared,
      aq_put, ended, applied, reopens_left, res>>

\* C40: deinit is idempotent. A deinit call ends in the settled state; the
\* steps of a deinit call on a settled session change nothing but the
\* position of the caller, so they join and free nothing again; and a call
\* on a session that holds nothing (one never opened) joins and frees
\* nothing and sets only the stop flag and the flushing marks.
C40_DeinitIdempotent ==
    /\ [](dpc = "closed" => Settled)
    /\ [][(DeinitStep /\ Settled)
          => (UNCHANGED restOfDeinit /\ UNCHANGED <<mQuit, videoq, audioq>>)]_vars
    /\ [][(DeinitStep /\ Bare)
          => (/\ UNCHANGED restOfDeinit
              /\ mQuit'
              /\ videoq' \in {videoq, PQ_flush(videoq)}
              /\ audioq' \in {audioq, PQ_flush(audioq)})]_vars

\* a second deinit call on the session that was opened and closed has passed
\* its joins and stands before its release, with one free and two joins made
C40_SecondCallReached ==
    /\ dpc = "d_release"
    /\ Settled
    /\ res.freed = 1
    /\ res.joined = 2

============================================================================
